---- MODULE Spec2Model ----
(***************************************************************************)
(* Model of build_free_corpus.py: the retrying fetch, the PDF text         *)
(* extraction adapter, the text normalizer and the resumable main loop     *)
(* with its two persisted stores (index_texts.csv and docs_index.json).    *)
(* Texts are sequences of one-character tokens.                            *)
(***************************************************************************)
EXTENDS Integers, Sequences, FiniteSets, TLC

\* ------------------------------------------------------------------ bounds
MaxLen == 3
MaxRows == 2
MaxLog == 2
MaxRetries == 3
MaxSleep == 2
MaxChars == 2
MaxPages == 3

\* ------------------------------------------------------- program constants
DefaultRetries == 3
DefaultSleep == 2
DefaultMaxPages == 0
DefaultMaxChars == 1200

\* ------------------------------------------------------- character classes
Letters == {"a", "b"}
Invisibles == {"SHY", "ZWSP", "ZWNJ", "ZWJ", "BOM", "\r"}
Whitespace == {" ", "\t", "\n"}
WordChars == Letters
Alphabet == {"a", "b", " ", "\n", "-", "<", ">", "ZWSP"}

Range(s) == {s[i] : i \in 1..Len(s)}

Drop(s, n) == SubSeq(s, n + 1, Len(s))

Max(S) == CHOOSE x \in S : \A y \in S : y <= x

Min2(a, b) == IF a <= b THEN a ELSE b

RECURSIVE RunLen(_, _)
\* length of the longest prefix of s made of characters of class C
RunLen(s, C) ==
    IF s = <<>> \/ Head(s) \notin C THEN 0 ELSE 1 + RunLen(Tail(s), C)

\* ------------------------------------------------------------ normalize_text
\* rule 1: s.replace(soft hyphen, zero width ..., BOM, '\r' -> '')
StripInvisibles(s) == SelectSeq(s, LAMBDA c : c \notin Invisibles)

RECURSIVE DeHyphenate(_)
\* rule 2: re.sub(r'-\s*\n\s*', '', s); the greedy \s* backtracks to the last
\* newline of the whitespace run, the trailing \s* then takes the rest of it
DeHyphenate(s) ==
    IF s = <<>> THEN <<>>
    ELSE IF Head(s) = "-"
              /\ "\n" \in Range(SubSeq(Tail(s), 1, RunLen(Tail(s), Whitespace)))
         THEN DeHyphenate(Drop(Tail(s), RunLen(Tail(s), Whitespace)))
         ELSE <<Head(s)>> \o DeHyphenate(Tail(s))

RECURSIVE StripTagFrom(_, _)
\* rule 3a: re.sub(r'([letters]{2,})>', r'\1', s): a '>' that directly follows
\* two or more letters is dropped
StripTagFrom(s, p) ==
    IF p > Len(s) THEN <<>>
    ELSE IF s[p] = ">" /\ p >= 3 /\ s[p - 1] \in Letters /\ s[p - 2] \in Letters
         THEN StripTagFrom(s, p + 1)
         ELSE <<s[p]>> \o StripTagFrom(s, p + 1)

StripTag(s) == StripTagFrom(s, 1)

\* rule 3b: s.replace('<', '').replace('>', '')
StripAngle(s) == SelectSeq(s, LAMBDA c : c \notin {"<", ">"})

RECURSIVE CollapseNewlines(_)
\* rule 4: re.sub(r'\n{2,}', '\n', s)
CollapseNewlines(s) ==
    IF s = <<>> THEN <<>>
    ELSE IF Head(s) = "\n"
         THEN <<"\n">> \o CollapseNewlines(Drop(s, RunLen(s, {"\n"})))
         ELSE <<Head(s)>> \o CollapseNewlines(Tail(s))

RECURSIVE AltLetters(_, _)
\* number of letters of the longest "letter \s letter \s ... letter" that
\* starts at position p of s (0 when s[p] is no letter)
AltLetters(s, p) ==
    IF p > Len(s) \/ s[p] \notin Letters THEN 0
    ELSE IF p + 1 <= Len(s) /\ s[p + 1] \in Whitespace
         THEN 1 + AltLetters(s, p + 2)
         ELSE 1

\* (?:(?<=\b)|(?<=\W)) before a letter: no word character precedes it
JoinStartOk(s, p) == p = 1 \/ s[p - 1] \notin WordChars

\* (?=\b|\W) after a letter at position e: no word character follows it
JoinEndOk(s, e) == e = Len(s) \/ s[e + 1] \notin WordChars

\* the letter counts k >= 3 the pattern ((?:L\s){2,}L) can match from p
JoinCounts(s, p) ==
    IF p > Len(s) \/ ~JoinStartOk(s, p) THEN {}
    ELSE {k \in 3..AltLetters(s, p) : JoinEndOk(s, p + 2 * (k - 1))}

\* _join_letters: m.group(0).replace(' ', '')
JoinLettersRepl(m) == SelectSeq(m, LAMBDA c : c # " ")

RECURSIVE JoinLettersFrom(_, _)
\* rule 5: re.sub(<letter-spaced run>, _join_letters, s), greedy, leftmost,
\* scanning on after each match
JoinLettersFrom(s, p) ==
    IF p > Len(s) THEN <<>>
    ELSE IF JoinCounts(s, p) # {}
         THEN LET e == p + 2 * (Max(JoinCounts(s, p)) - 1)
              IN  JoinLettersRepl(SubSeq(s, p, e)) \o JoinLettersFrom(s, e + 1)
         ELSE <<s[p]>> \o JoinLettersFrom(s, p + 1)

JoinLetters(s) == JoinLettersFrom(s, 1)

RECURSIVE CollapseSpaces(_)
\* rule 6: re.sub(r'[ \t]{2,}', ' ', s)
CollapseSpaces(s) ==
    IF s = <<>> THEN <<>>
    ELSE IF RunLen(s, {" ", "\t"}) >= 2
         THEN <<" ">> \o CollapseSpaces(Drop(s, RunLen(s, {" ", "\t"})))
         ELSE <<Head(s)>> \o CollapseSpaces(Tail(s))

normalize_text(s) ==
    IF s = <<>> THEN s
    ELSE CollapseSpaces(JoinLetters(CollapseNewlines(
             StripAngle(StripTag(DeHyphenate(StripInvisibles(s)))))))

\* ------------------------------------------------------------------ inputs
\* a URL cell: loc is everything up to the last path segment, name the last
\* path segment (still percent-encoded) as a sequence of file-name tokens
NoUrl == [loc |-> "", name |-> <<>>]
NanCell == [loc |-> "nan", name |-> <<>>]
UrlA == [loc |-> "http://h1/", name |-> <<"doc", ".pdf">>]
UrlB == [loc |-> "http://h2/", name |-> <<"doc", ".PDF">>]
Urls == {UrlA, UrlB}
EmptyCell == NoUrl
UrlCells == Urls \cup {NanCell, EmptyCell}

\* a date cell: day-first or ISO fields, or text that is no date
NaT == [kind |-> "text", f |-> <<>>]
DateOne == [kind |-> "dmy", f |-> <<"06", "05", "2024">>]
DateCells == {DateOne}

Rows == [date : DateCells, url : UrlCells]
NoRow == [date |-> NaT, url |-> NoUrl]

\* downloaded bodies: the page texts PyMuPDF would extract, or unreadable
NoBytes == [id |-> "none", readable |-> FALSE, pages |-> <<>>]
PdfOne == [id |-> "pdf1", readable |-> TRUE, pages |-> << <<"a", "-", "\n", "b">> >>]
PdfBad == [id |-> "junk", readable |-> FALSE, pages |-> <<>>]
PdfBytes == {PdfOne, PdfBad}

Causes == {"Timeout", "HTTPError"}
Platforms == {"nt", "posix"}

\* ----------------------------------------------------------------- helpers
\* unquote(): percent-decoding of the file name
Unquote(name) == [i \in 1..Len(name) |-> IF name[i] = "%3A" THEN ":" ELSE name[i]]

IllegalChars == {"\\", "/", ":", "*", "?", "\"", "<", ">", "|"}

RECURSIVE ReplaceIllegal(_)
\* re.sub(r'[\\/:*?"<>|]+', "_", name)
ReplaceIllegal(n) ==
    IF n = <<>> THEN <<>>
    ELSE IF Head(n) \in IllegalChars
         THEN <<"_">> \o ReplaceIllegal(Drop(n, RunLen(n, IllegalChars)))
         ELSE <<Head(n)>> \o ReplaceIllegal(Tail(n))

safe_filename(url) ==
    LET name == IF Unquote(url.name) = <<>> THEN <<"documento", ".pdf">>
                ELSE Unquote(url.name)
    IN  ReplaceIllegal(name)

\* format_date: a parseable cell becomes YYYY-MM-DD, anything else str(val)
format_date(val) ==
    IF val.kind = "dmy" THEN [kind |-> "iso", f |-> <<val.f[3], val.f[2], val.f[1]>>]
    ELSE val

\* date_parts: (YYYY, MM, DD) of a formatted date, or None (the empty tuple)
date_parts(d) == IF d.kind = "iso" THEN d.f ELSE <<>>

\* filename_pdf[:-4] if filename_pdf.lower().endswith(".pdf") else filename_pdf
base_name(fn) ==
    IF fn # <<>> /\ fn[Len(fn)] \in {".pdf", ".PDF"} THEN SubSeq(fn, 1, Len(fn) - 1)
    ELSE fn

\* txt_path = TEXT_DIR / YYYY / MM / DD / (base_name + ".txt")
txt_path(r) ==
    [dir |-> date_parts(format_date(r.date)),
     file |-> base_name(safe_filename(r.url)) \o <<".txt">>]

Paths == {txt_path(r) : r \in Rows}

\* a slip that would drop the test for the empty string
IsBlankNanOnly(url) == url.loc = "nan"

\* str(cell).strip() is empty, or starts with "nan" in lower case
IsBlank(url) == url.loc \in {"", "nan"}

Sha256(b) == <<"sha256", b.id>>

Md5(url) == <<"md5", url>>

RECURSIVE JoinPages(_)
\* "\n".join(text)
JoinPages(ps) ==
    IF ps = <<>> THEN <<>>
    ELSE IF Len(ps) = 1 THEN ps[1]
         ELSE ps[1] \o <<"\n">> \o JoinPages(Tail(ps))

\* a slip that would leave max_pages without effect
ExtractAllPages(b, max_pages) == JoinPages(b.pages)

\* extract_text_from_pdf_bytes for a readable document
extract_text_from_pdf_bytes(b, max_pages) ==
    LET n == IF max_pages = 0 THEN Len(b.pages) ELSE Min2(max_pages, Len(b.pages))
    IN  JoinPages(SubSeq(b.pages, 1, n))

\* st_size of a UTF-8 text file
ByteWidth(c) == IF c = "ELLIPSIS" THEN 3 ELSE 1

RECURSIVE ByteLen(_)
ByteLen(s) == IF s = <<>> THEN 0 ELSE ByteWidth(Head(s)) + ByteLen(Tail(s))

\* s[:n]: the first n characters, all but the last -n when n is negative
Slice(s, n) == SubSeq(s, 1, IF n >= 0 THEN n ELSE Max({0, Len(s) + n}))

\* a slip that would cut the text and leave the marker out
TruncateNoMarker(s, n) == IF Len(s) <= n THEN s ELSE Slice(s, n)

\* s if len(s) <= n else s[:n] + " ..." (a space and U+2026)
truncate(s, n) == IF Len(s) <= n THEN s ELSE Slice(s, n) \o <<" ", "ELLIPSIS">>

\* content.replace("\n", " ")
Flatten(s) == [i \in 1..Len(s) |-> IF s[i] = "\n" THEN " " ELSE s[i]]

\* ------------------------------------------------------- fetch_pdf_bytes
\* the frame of one call: its arguments, the loop variable i, last, the
\* value returned, the sleeps made, and what each request so far came to
NoFrame ==
    [pc |-> "idle", url |-> NoUrl, retries |-> 0, sleep |-> 0, i |-> 0,
     last |-> "None", ret |-> NoBytes, slept |-> <<>>, seen |-> <<>>,
     err |-> [url |-> NoUrl, cause |-> "None"]]

FetchCall(url, retries, sleep) ==
    [NoFrame EXCEPT !.pc = "loop", !.url = url, !.retries = retries,
                    !.sleep = sleep]

\* what one requests.get + raise_for_status can come to
Answers ==
    [ok : {TRUE}, body : PdfBytes, cause : {"None"}]
        \cup [ok : {FALSE}, body : {NoBytes}, cause : Causes]

\* the body of the for loop: return r.content, or
\* last = e; time.sleep(sleep*(i+1)) and on to the next i
FetchTry(f, r) ==
    IF r.ok
    THEN [f EXCEPT !.pc = "returned", !.ret = r.body, !.seen = Append(f.seen, r)]
    ELSE [f EXCEPT !.last = r.cause, !.seen = Append(f.seen, r),
                   !.slept = Append(f.slept, f.sleep * (f.i + 1)),
                   !.i = f.i + 1]

\* a slip that would hand back a value where the code raises
FetchExhaustedReturns(f) == [f EXCEPT !.pc = "returned"]

\* raise RuntimeError(f"Descarga fallida: {url} -> {last}")
FetchExhausted(f) ==
    [f EXCEPT !.pc = "raised", !.err = [url |-> f.url, cause |-> f.last]]

RECURSIVE FetchLoop(_, _)
\* for i in range(retries), rs[i+1] being the outcome of the request of pass i
FetchLoop(f, rs) ==
    IF f.pc # "loop" THEN f
    ELSE IF f.i < f.retries THEN FetchLoop(FetchTry(f, rs[f.i + 1]), rs)
         ELSE FetchExhausted(f)

fetch_pdf_bytes(url, retries, sleep, rs) == FetchLoop(FetchCall(url, retries, sleep), rs)

\* ------------------------------------------------------------------- state
VARIABLES
    nIn, nOnce, nTwice, npc,                      \* normalize_text applied twice
    frame,                                        \* fetch_pdf_bytes called alone
    metaExists, metaDisk, fs, jsonFile,           \* the files on disk
    pc, platform, args, done, metaBuf, docs,      \* main: position and locals
    total, rowIdx, row, pdf_bytes, text, extracted, exc,
    rowPre,                                       \* the text file as the row found it
    startUrls,                                    \* URLs logged when the run began
    recordsOwed,  \* rows fetched, extracted and written, minus records appended
    errorsExtra,  \* "[ERROR]" lines printed, minus rows whose fetch or extract failed
    limit, nrows,                                 \* --limit and len(rows)
    snippetsOwed, \* records appended in the run, minus snippets staged in it
    tIn, tN, tOut, tpc,                           \* truncate called alone
    eIn, eMax, eOut, epc                          \* extract_text_from_pdf_bytes alone

normVars == <<nIn, nOnce, nTwice, npc>>
fetchVars == <<frame>>
diskVars == <<metaExists, metaDisk, fs, jsonFile>>
rowVars == <<row, pdf_bytes, text, extracted, exc, rowPre>>
runVars == <<platform, args, done, total, startUrls, limit, nrows>>
countVars == <<recordsOwed, errorsExtra, snippetsOwed>>
truncVars == <<tIn, tN, tOut, tpc>>
extractVars == <<eIn, eMax, eOut, epc>>
pureVars == <<normVars, truncVars, extractVars>>
vars == <<pureVars, fetchVars, diskVars, rowVars, runVars, countVars,
          pc, metaBuf, docs, rowIdx>>

\* ------------------------------------------------------------- file formats
NoFile == [exists |-> FALSE, text |-> <<>>, by |-> NoUrl]

NoJson == [state |-> "absent", items |-> <<>>]

NoDate == [kind |-> "none", f |-> <<>>]

\* csv.DictWriter fieldnames: date, pdf_url, text_relpath, chars, sha256_bytes
HeaderLine ==
    [kind |-> "header", date |-> NoDate, pdf_url |-> NoUrl,
     text_relpath |-> [dir |-> <<>>, file |-> <<>>], chars |-> 0,
     sha256_bytes |-> <<>>]

RecordLine(d, u, rel, n, sha) ==
    [kind |-> "record", date |-> d, pdf_url |-> u, text_relpath |-> rel,
     chars |-> n, sha256_bytes |-> sha]

\* csv.DictReader takes the first line of the file as the field names
\* whatever it holds; row["pdf_url"] of a later line raises KeyError when
\* that first line is not the header
LoadRaises(lines) == Len(lines) >= 2 /\ lines[1].kind # "header"

LoadDone(lines) == {lines[i].pdf_url : i \in 2..Len(lines)}

NumRecords(lines) == Cardinality({j \in 1..Len(lines) : lines[j].kind = "record"})

\* the URLs of the records the log file holds
LoggedUrls(lines) ==
    {lines[i].pdf_url : i \in {j \in 1..Len(lines) : lines[j].kind = "record"}}

\* a slip that would start every run from an empty list
LoadDocsFresh(j) == <<>>

\* json.loads of docs_index.json, [] when it is missing or does not parse
LoadDocs(j) == IF j.state = "list" THEN j.items ELSE <<>>

DocEntry(r, content, max_chars) ==
    [id |-> Md5(r.url), date |-> format_date(r.date), pdf_url |-> r.url,
     text_relpath |-> txt_path(r),
     snippet |-> truncate(Flatten(content), max_chars)]

DefaultArgs == [resume |-> FALSE, rewrite |-> FALSE]

\* a slip that would leave --rewrite without effect
NeedWriteNoRewrite(a, f) == ~f.exists \/ ByteLen(f.text) = 0

\* args.rewrite or (not txt_path.exists() or txt_path.stat().st_size == 0)
NeedWrite(a, f) == a.rewrite \/ ~f.exists \/ ByteLen(f.text) = 0

\* ---------------------------------------------------------------- initial
NormIdle ==
    /\ nIn = <<>>
    /\ nOnce = <<>>
    /\ nTwice = <<>>
    /\ npc = "off"

FetchIdle == frame = NoFrame

MainIdle ==
    /\ metaExists = FALSE
    /\ metaDisk = <<>>
    /\ fs = [p \in Paths |-> NoFile]
    /\ jsonFile = NoJson
    /\ pc = "idle"
    /\ args = DefaultArgs
    /\ done = {}
    /\ metaBuf = <<>>
    /\ docs = <<>>
    /\ total = 0
    /\ rowIdx = 0
    /\ row = NoRow
    /\ pdf_bytes = NoBytes
    /\ text = <<>>
    /\ extracted = FALSE
    /\ exc = "None"
    /\ rowPre = NoFile
    /\ startUrls = {}
    /\ recordsOwed = 0
    /\ errorsExtra = 0
    /\ limit = 0
    /\ nrows = 0
    /\ snippetsOwed = 0

TruncIdle ==
    /\ tIn = <<>>
    /\ tN = 0
    /\ tOut = <<>>
    /\ tpc = "off"

ExtractIdle ==
    /\ eIn = NoBytes
    /\ eMax = 0
    /\ eOut = <<>>
    /\ epc = "off"

Init ==
    /\ platform \in Platforms
    /\ MainIdle
    /\ FetchIdle
    /\ NormIdle
    /\ TruncIdle
    /\ ExtractIdle

\* the locals of one row, cleared
RowLocalsReset ==
    /\ row' = NoRow
    /\ pdf_bytes' = NoBytes
    /\ text' = <<>>
    /\ extracted' = FALSE
    /\ rowPre' = NoFile

\* the locals of one row cleared, and no exception in flight
RowReset ==
    /\ RowLocalsReset
    /\ exc' = "None"

\* ------------------------------------------------------- fetch_pdf_bytes
\* fetch_pdf_bytes called on its own, one attempt at a time
InitFetch ==
    /\ platform = "nt"
    /\ MainIdle
    /\ NormIdle
    /\ TruncIdle
    /\ ExtractIdle
    /\ \E u \in Urls, n \in 0..MaxRetries, sl \in 1..MaxSleep :
          frame = FetchCall(u, n, sl)

\* one pass of the loop body: the request and what follows it
FetchAttempt ==
    /\ frame.pc = "loop"
    /\ frame.i < frame.retries
    /\ \E r \in Answers : frame' = FetchTry(frame, r)
    /\ UNCHANGED <<pureVars, diskVars, rowVars, runVars, countVars,
                   pc, metaBuf, docs, rowIdx>>

\* range(retries) is exhausted
FetchRaise ==
    /\ frame.pc = "loop"
    /\ frame.i >= frame.retries
    /\ frame' = FetchExhausted(frame)
    /\ UNCHANGED <<pureVars, diskVars, rowVars, runVars, countVars,
                   pc, metaBuf, docs, rowIdx>>

NextFetch == FetchAttempt \/ FetchRaise

SpecFetch == InitFetch /\ [][NextFetch]_vars /\ WF_vars(NextFetch)

\* --------------------------------------------------------------------- main
Ended == {"idle", "finished", "crashed", "aborted"}

Running == {"loop", "hashed", "writing", "written", "buffered",
            "flushed", "staged", "except", "closed", "jsonopen"}

ArgSet == [resume : BOOLEAN, rewrite : BOOLEAN]

\* --limit: 0 is every row
Limits == {0, 1}

\* what every start of main() does to the history of the run
RunBegin(a) ==
    /\ pc \in Ended
    /\ args' = a
    /\ startUrls' = LoggedUrls(metaDisk)
    /\ recordsOwed' = 0
    /\ errorsExtra' = 0
    /\ snippetsOwed' = 0
    /\ rowIdx' = 1
    /\ RowLocalsReset
    /\ UNCHANGED <<pureVars, fetchVars, platform, fs, jsonFile>>

\* a slip that would open (and so create) the log before the column check
MetaOpenedAtCheck(e) == TRUE

\* whether index_texts.csv is there when the column check of lines 126-127
\* runs, e telling whether it was there before the run: the log is only
\* opened at line 138
MetaAtColumnCheck(e) == e

\* the manifest lacks the URL column: raise SystemExit(message), exit status 1
StartRunNoColumn ==
    /\ \E a \in ArgSet : RunBegin(a)
    /\ exc' = "SystemExit"
    /\ pc' = "aborted"
    /\ done' = {}
    /\ docs' = <<>>
    /\ total' = 0
    /\ limit' = 0
    /\ nrows' = 0
    /\ metaExists' = MetaAtColumnCheck(metaExists)
    /\ UNCHANGED <<metaDisk, metaBuf>>

\* --resume over a log whose first line is not the header: KeyError
StartRunKeyError ==
    /\ \E a \in ArgSet : a.resume /\ RunBegin(a)
    /\ metaExists
    /\ LoadRaises(metaDisk)
    /\ exc' = "KeyError"
    /\ pc' = "aborted"
    /\ done' = {}
    /\ docs' = <<>>
    /\ total' = 0
    /\ limit' = 0
    /\ nrows' = 0
    /\ UNCHANGED <<metaExists, metaDisk, metaBuf>>

\* a slip that would leave --limit without effect
RowTotalNoLimit(l, n) == n

\* total = len(rows) if args.limit == 0 else min(args.limit, len(rows))
RowTotal(l, n) == IF l = 0 THEN n ELSE Min2(l, n)

\* main() up to the row loop: the done set, the log opened for append (and
\* its header buffered when the file was not there), the snippet list loaded
StartRun ==
    /\ \E a \in ArgSet :
          /\ RunBegin(a)
          /\ ~(a.resume /\ metaExists /\ LoadRaises(metaDisk))
          /\ done' = IF a.resume /\ metaExists THEN LoadDone(metaDisk) ELSE {}
    /\ metaExists' = TRUE
    /\ metaBuf' = IF metaExists THEN <<>> ELSE <<HeaderLine>>
    /\ docs' = LoadDocs(jsonFile)
    /\ \E n \in 0..MaxRows, l \in Limits :
          /\ nrows' = n
          /\ limit' = l
          /\ total' = RowTotal(l, n)
    /\ exc' = "None"
    /\ pc' = "loop"
    /\ UNCHANGED metaDisk

\* a row whose URL cell is empty or NaN: continue
RowSkipBlank ==
    /\ pc = "loop"
    /\ rowIdx <= total
    /\ \E r \in Rows : IsBlank(r.url) /\ row' = r
    /\ rowIdx' = rowIdx + 1
    /\ UNCHANGED <<pureVars, fetchVars, diskVars, runVars, countVars, pdf_bytes,
                   text, extracted, exc, rowPre, pc, metaBuf, docs>>

\* --resume and the URL is in the done set: continue
RowSkipDone ==
    /\ pc = "loop"
    /\ rowIdx <= total
    /\ \E r \in Rows : ~IsBlank(r.url) /\ args.resume /\ r.url \in done
    /\ rowIdx' = rowIdx + 1
    /\ RowReset
    /\ UNCHANGED <<pureVars, fetchVars, diskVars, runVars, countVars,
                   pc, metaBuf, docs>>

\* a row that is not skipped
Eligible(r) == ~IsBlank(r.url) /\ ~(args.resume /\ r.url \in done)

\* the outcomes of the requests of one call from main (retries=3, sleep=2)
AnswerSeqs == [1..DefaultRetries -> Answers]

\* requests.get of a cell that is no URL raises (MissingSchema) every time
NoUrlAnswers == [ok : {FALSE}, body : {NoBytes}, cause : {"MissingSchema"}]

\* every way fetch_pdf_bytes(url) can end
FetchOutcomes ==
    [u \in UrlCells |->
        {fetch_pdf_bytes(u, DefaultRetries, DefaultSleep, rs) :
            rs \in IF u \in Urls THEN AnswerSeqs
                   ELSE [1..DefaultRetries -> NoUrlAnswers]}]

\* the row is processed: its paths are computed,
\* pdf_bytes = fetch_pdf_bytes(url) returns; sha = sha256(pdf_bytes)
RowFetched ==
    /\ pc = "loop"
    /\ rowIdx <= total
    /\ NumRecords(metaDisk \o metaBuf) < MaxLog
    /\ \E r \in Rows :
          /\ Eligible(r)
          /\ \E f \in FetchOutcomes[r.url] :
              /\ f.pc = "returned"
              /\ row' = r
              /\ rowPre' = fs[txt_path(r)]
              /\ pdf_bytes' = f.ret
    /\ pc' = "hashed"
    /\ UNCHANGED <<pureVars, fetchVars, diskVars, runVars, countVars, text,
                   extracted, exc, metaBuf, docs, rowIdx>>

\* the row is processed and fetch_pdf_bytes(url) raises
RowFetchRaised ==
    /\ pc = "loop"
    /\ rowIdx <= total
    /\ \E r \in Rows :
          /\ Eligible(r)
          /\ \E f \in FetchOutcomes[r.url] :
              /\ f.pc = "raised"
              /\ row' = r
              /\ rowPre' = fs[txt_path(r)]
    /\ exc' = "RuntimeError"
    /\ errorsExtra' = errorsExtra - 1
    /\ pc' = "except"
    /\ UNCHANGED <<pureVars, fetchVars, diskVars, runVars, pdf_bytes, text,
                   extracted, recordsOwed, snippetsOwed, metaBuf, docs,
                   rowIdx>>

\* the text is to be written and fitz.open raises on the bytes
ExtractRaises ==
    /\ pc = "hashed"
    /\ NeedWrite(args, fs[txt_path(row)])
    /\ ~pdf_bytes.readable
    /\ exc' = "FileDataError"
    /\ errorsExtra' = errorsExtra - 1
    /\ pc' = "except"
    /\ UNCHANGED <<pureVars, fetchVars, diskVars, runVars, row, pdf_bytes, text,
                   extracted, rowPre, recordsOwed, snippetsOwed, metaBuf, docs,
                   rowIdx>>

\* extract, normalize, and write_text opens the file, which truncates it
WriteOpen ==
    /\ pc = "hashed"
    /\ NeedWrite(args, fs[txt_path(row)])
    /\ pdf_bytes.readable
    /\ text' = normalize_text(extract_text_from_pdf_bytes(pdf_bytes, DefaultMaxPages))
    /\ extracted' = TRUE
    /\ fs' = [fs EXCEPT ![txt_path(row)] =
                 [exists |-> TRUE, text |-> <<>>, by |-> row.url]]
    /\ pc' = "writing"
    /\ UNCHANGED <<pureVars, fetchVars, metaExists, metaDisk, jsonFile, runVars,
                   countVars, row, pdf_bytes, exc, rowPre,
                   metaBuf, docs, rowIdx>>

\* write_text writes the text and closes the file
WriteText ==
    /\ pc = "writing"
    /\ fs' = [fs EXCEPT ![txt_path(row)] =
                 [exists |-> TRUE, text |-> text, by |-> row.url]]
    /\ recordsOwed' = recordsOwed + 1
    /\ pc' = "written"
    /\ UNCHANGED <<pureVars, fetchVars, metaExists, metaDisk, jsonFile, runVars,
                   rowVars, errorsExtra, snippetsOwed, metaBuf, docs, rowIdx>>

\* no --rewrite and a non-empty text file is there: it is kept
SkipWrite ==
    /\ pc = "hashed"
    /\ ~NeedWrite(args, fs[txt_path(row)])
    /\ recordsOwed' = recordsOwed + 1
    /\ pc' = "written"
    /\ UNCHANGED <<pureVars, fetchVars, diskVars, runVars, rowVars,
                   errorsExtra, snippetsOwed, metaBuf, docs, rowIdx>>

\* a slip that would write the record before the text is extracted
AppendPointEarly == "hashed"

\* where on the row the metadata record is written
AppendPoint == "written"

\* base_dir = Path(str(base_dir).strip("/\\")) made txt_path relative on a
\* POSIX host, so txt_path.relative_to(REPO_ROOT) raises ValueError there
RelPathRaises ==
    /\ pc = AppendPoint
    /\ platform = "posix"
    /\ exc' = "ValueError"
    /\ pc' = "except"
    /\ UNCHANGED <<pureVars, fetchVars, diskVars, runVars, countVars, row,
                   pdf_bytes, text, extracted, rowPre,
                   metaBuf, docs, rowIdx>>

\* meta_w.writerow({...}): the record goes to the file object's buffer
WriteRow ==
    /\ pc = AppendPoint
    /\ platform = "nt"
    /\ metaBuf' = Append(metaBuf,
           RecordLine(format_date(row.date), row.url, txt_path(row),
                      ByteLen(fs[txt_path(row)].text), Sha256(pdf_bytes)))
    /\ recordsOwed' = recordsOwed - 1
    /\ snippetsOwed' = snippetsOwed + 1
    /\ pc' = "buffered"
    /\ UNCHANGED <<pureVars, fetchVars, diskVars, runVars, rowVars,
                   errorsExtra, docs, rowIdx>>

\* meta_f.flush()
FlushRow ==
    /\ pc = "buffered"
    /\ metaDisk' = metaDisk \o metaBuf
    /\ metaBuf' = <<>>
    /\ pc' = "flushed"
    /\ UNCHANGED <<pureVars, fetchVars, metaExists, fs, jsonFile, runVars,
                   rowVars, countVars, docs, rowIdx>>

\* the text is read back and its snippet staged in docs
StageSnippet ==
    /\ pc = "flushed"
    /\ docs' = Append(docs, DocEntry(row, fs[txt_path(row)].text, DefaultMaxChars))
    /\ snippetsOwed' = snippetsOwed - 1
    /\ pc' = "staged"
    /\ UNCHANGED <<pureVars, fetchVars, diskVars, runVars, rowVars, recordsOwed,
                   errorsExtra, metaBuf, rowIdx>>

\* time.sleep(args.sleep), the last statement of the try block, and on to
\* the next row
InterRowSleep ==
    /\ pc = "staged"
    /\ rowIdx' = rowIdx + 1
    /\ pc' = "loop"
    /\ RowReset
    /\ UNCHANGED <<pureVars, fetchVars, diskVars, runVars, countVars,
                   metaBuf, docs>>

\* a slip that would sleep after a failed row too (the sleep in a finally)
AfterErrorSleeps == "staged"

\* where the except clause leaves the row: at the next pass of the for loop
AfterError == "loop"

\* except Exception as e: print("[ERROR] ...")
HandleError ==
    /\ pc = "except"
    /\ errorsExtra' = errorsExtra + 1
    /\ IF AfterError = "loop"
       THEN rowIdx' = rowIdx + 1 /\ RowReset
       ELSE UNCHANGED <<rowIdx, rowVars>>
    /\ pc' = AfterError
    /\ UNCHANGED <<pureVars, fetchVars, diskVars, runVars, recordsOwed,
                   snippetsOwed, metaBuf, docs>>

\* the loop is over: meta_f.close() writes out what is buffered
CloseMeta ==
    /\ pc = "loop"
    /\ rowIdx > total
    /\ metaDisk' = metaDisk \o metaBuf
    /\ metaBuf' = <<>>
    /\ pc' = "closed"
    /\ RowReset
    /\ UNCHANGED <<pureVars, fetchVars, metaExists, fs, jsonFile, runVars,
                   countVars, docs, rowIdx>>

\* DOCS_JSON.write_text opens the file, which truncates it
JsonOpen ==
    /\ pc = "closed"
    /\ jsonFile' = [state |-> "invalid", items |-> <<>>]
    /\ pc' = "jsonopen"
    /\ UNCHANGED <<pureVars, fetchVars, metaExists, metaDisk, fs, runVars,
                   rowVars, countVars, metaBuf, docs, rowIdx>>

\* write_text writes json.dumps(docs) and closes the file
JsonWrite ==
    /\ pc = "jsonopen"
    /\ jsonFile' = [state |-> "list", items |-> docs]
    /\ pc' = "finished"
    /\ UNCHANGED <<pureVars, fetchVars, metaExists, metaDisk, fs, runVars,
                   rowVars, countVars, metaBuf, docs, rowIdx>>

\* the process is killed: what is on disk stays, what is in memory is gone
Crash ==
    /\ pc \in Running
    /\ pc' = "crashed"
    /\ metaBuf' = <<>>
    /\ docs' = <<>>
    /\ done' = {}
    /\ args' = DefaultArgs
    /\ total' = 0
    /\ rowIdx' = 0
    /\ recordsOwed' = 0
    /\ errorsExtra' = 0
    /\ snippetsOwed' = 0
    /\ limit' = 0
    /\ nrows' = 0
    /\ RowReset
    /\ UNCHANGED <<pureVars, fetchVars, diskVars, platform, startUrls>>

Next ==
    \/ StartRun \/ StartRunNoColumn \/ StartRunKeyError
    \/ RowSkipBlank \/ RowSkipDone
    \/ RowFetched \/ RowFetchRaised
    \/ ExtractRaises \/ WriteOpen \/ WriteText \/ SkipWrite
    \/ RelPathRaises \/ WriteRow \/ FlushRow \/ StageSnippet \/ InterRowSleep
    \/ HandleError
    \/ CloseMeta \/ JsonOpen \/ JsonWrite
    \/ Crash

Spec == Init /\ [][Next]_vars

\* ------------------------------------------------- normalize_text, twice
Texts(n) == UNION {[1..k -> Alphabet] : k \in 0..n}

InitNorm ==
    /\ platform = "nt"
    /\ MainIdle
    /\ FetchIdle
    /\ TruncIdle
    /\ ExtractIdle
    /\ nIn \in Texts(MaxLen)
    /\ nOnce = <<>>
    /\ nTwice = <<>>
    /\ npc = "input"

NormalizeOnce ==
    /\ npc = "input"
    /\ nOnce' = normalize_text(nIn)
    /\ npc' = "once"
    /\ UNCHANGED <<nIn, nTwice>>
    /\ UNCHANGED <<truncVars, extractVars, fetchVars, diskVars, rowVars,
                   runVars, countVars, pc, metaBuf, docs, rowIdx>>

NormalizeTwice ==
    /\ npc = "once"
    /\ nTwice' = normalize_text(nOnce)
    /\ npc' = "twice"
    /\ UNCHANGED <<nIn, nOnce>>
    /\ UNCHANGED <<truncVars, extractVars, fetchVars, diskVars, rowVars,
                   runVars, countVars, pc, metaBuf, docs, rowIdx>>

NextNorm == NormalizeOnce \/ NormalizeTwice

SpecNorm == InitNorm /\ [][NextNorm]_vars

\* ------------------------------------------------------------ properties
Records(lines) == SelectSeq(lines, LAMBDA l : l.kind = "record")

Log == metaDisk \o metaBuf

\* the policy of whether a row's text is written, on the file as the row
\* found it
MustWrite == args.rewrite \/ ~rowPre.exists \/ Len(rowPre.text) = 0

FreshText == normalize_text(extract_text_from_pdf_bytes(pdf_bytes, DefaultMaxPages))

\* C1: with --resume, no row whose URL had a record in the log when the run
\* began is processed (fetched, written, recorded or staged)
ResumeSkipsLogged == (args.resume /\ row # NoRow) => row.url \notin startUrls

\* fetch and hash are done for the row, the text file is there, and it is the
\* normalized extraction of the bytes when the policy asked for a write
RowComplete ==
    /\ pc = "written"
    /\ pdf_bytes \in PdfBytes
    /\ fs[txt_path(row)].exists
    /\ IF MustWrite
       THEN extracted /\ pdf_bytes.readable /\ fs[txt_path(row)].text = FreshText
       ELSE fs[txt_path(row)] = rowPre

\* C2: a record enters the log only in a step from a state where fetch,
\* hash and, when the policy asks for it, extract, normalize and the write of
\* the text are done for the row; the record is that row's; and a step into or
\* out of the error handler leaves the log as it is
NoPartialRecord ==
    [][/\ Len(Records(Log')) > Len(Records(Log)) =>
            /\ RowComplete
            /\ Log' = Append(Log,
                   RecordLine(format_date(row.date), row.url, txt_path(row),
                              ByteLen(fs[txt_path(row)].text), Sha256(pdf_bytes)))
       /\ (pc = "except" \/ pc' = "except") =>
            Len(Records(Log')) <= Len(Records(Log))]_vars

\* a record was written for a row whose text was extracted and written
C2Witness == pc = "flushed" /\ extracted /\ Len(Records(metaDisk)) >= 1

\* C3: when a run ends, every row whose fetch and extraction succeeded has
\* its record, and the errors printed are those of the rows whose fetch or
\* extraction failed, one each
FailureIsolation == pc = "finished" => (recordsOwed = 0 /\ errorsExtra = 0)

\* C4: no two records of the log carry the same URL
OneRecordPerUrl ==
    \A i, j \in 1..Len(Records(metaDisk)) :
        i # j => Records(metaDisk)[i].pdf_url # Records(metaDisk)[j].pdf_url

\* C5: the snippet index a run wrote holds no two entries for one URL
SnippetIndexNoDuplicates ==
    pc = "finished" =>
        \A i, j \in 1..Len(jsonFile.items) :
            i # j => jsonFile.items[i].pdf_url # jsonFile.items[j].pdf_url

\* C6: after a crash the log on disk is the header followed by records only
\* (an empty file is let pass here), so that --resume can read it
CrashLeavesValidLog ==
    pc = "crashed" =>
        \/ metaDisk = <<>>
        \/ /\ metaDisk[1].kind = "header"
           /\ \A i \in 2..Len(metaDisk) : metaDisk[i].kind = "record"

\* once the text step of a row is over, the file at its path is the fresh
\* text where the policy asked for a write, and the file as found otherwise
TextAsPolicySays ==
    pc \in {"written", "buffered", "flushed"} =>
        IF MustWrite
        THEN fs[txt_path(row)] =
                 [exists |-> TRUE, text |-> FreshText, by |-> row.url]
        ELSE fs[txt_path(row)] = rowPre

\* C7: the text of a fetched row is extracted, normalized and written exactly
\* when --rewrite is on, or no file is at its path, or the file is empty; else
\* the file stays as it was and nothing is extracted; and the snippet staged
\* is cut from the text that is then in the file
SkipVsRewrite ==
    /\ []TextAsPolicySays
    /\ [][/\ (pc = "hashed" /\ pc' # "crashed") =>
            IF MustWrite
            THEN pc' \in {"writing", "except"}
                 /\ (pc' = "writing" => extracted' /\ text' = FreshText)
            ELSE pc' = "written" /\ ~extracted' /\ fs' = fs
       /\ (pc = "flushed" /\ pc' = "staged") =>
            docs'[Len(docs')].snippet =
                truncate(Flatten(IF MustWrite THEN FreshText ELSE rowPre.text),
                         DefaultMaxChars)]_vars

\* with --rewrite a text file that was there and not empty has been rewritten
C7Witness ==
    /\ pc = "written"
    /\ args.rewrite
    /\ rowPre.exists
    /\ rowPre.text # <<>>
    /\ extracted

FetchEnded == frame.pc \in {"returned", "raised"}

\* what holds of a call of fetch_pdf_bytes at every moment
FetchSafe ==
    /\ Len(frame.seen) <= frame.retries
    /\ \A k \in 1..(Len(frame.seen) - 1) : ~frame.seen[k].ok
    /\ frame.pc = "loop" => \A k \in 1..Len(frame.seen) : ~frame.seen[k].ok
    /\ frame.pc = "returned" =>
          /\ Len(frame.seen) >= 1
          /\ frame.seen[Len(frame.seen)].ok
          /\ frame.ret = frame.seen[Len(frame.seen)].body
    /\ frame.pc = "raised" =>
          /\ Len(frame.seen) = frame.retries
          /\ \A k \in 1..Len(frame.seen) : ~frame.seen[k].ok
          /\ frame.ret = NoBytes
          /\ frame.err.url = frame.url
          /\ frame.err.cause = IF frame.seen = <<>> THEN "None"
                               ELSE frame.seen[Len(frame.seen)].cause

\* C8: a call makes at most retries requests, returns the body of the first
\* request that succeeds and requests nothing after it, raises with the URL
\* and the last cause when every request failed, and always ends
FetchBoundedRetry ==
    /\ []FetchSafe
    /\ [][FetchEnded => frame' = frame]_vars
    /\ <>FetchEnded

\* a call that returned on its third request, after two failures
C8Witness == frame.pc = "returned" /\ Len(frame.seen) = 3

\* C10: a row never finds at its path a text file that a row with another
\* URL wrote
NoForeignArtifact == (row # NoRow /\ rowPre.exists) => rowPre.by = row.url

\* C9: normalizing an already normalized text changes nothing
NormalizeIdempotent == npc = "twice" => nTwice = nOnce

\* ------------------------------------------------- the later properties
\* C11: a run that finds the URL column missing ends by SystemExit in the
\* step that starts it, and that step leaves the log, the text files and
\* the snippet index as they were, creates no log, and takes no row: nothing
\* is fetched, buffered or staged
MissingColumnIsFatal ==
    /\ [](pc = "aborted" =>
            /\ exc \in {"SystemExit", "KeyError"}
            /\ row = NoRow /\ pdf_bytes = NoBytes
            /\ metaBuf = <<>> /\ docs = <<>>)
    /\ [][(pc' = "aborted" /\ exc' = "SystemExit") =>
            /\ pc \in Ended
            /\ metaExists' = metaExists
            /\ metaDisk' = metaDisk
            /\ fs' = fs
            /\ jsonFile' = jsonFile]_vars

\* the column was missing in a run started where no log existed
C11Witness == pc = "aborted" /\ exc = "SystemExit" /\ ~metaExists

\* the URL cells that are empty or missing (NaN)
BlankCells == {EmptyCell, NanCell}

\* the positions of a row that is being processed
InRow == {"hashed", "writing", "written", "buffered", "flushed", "staged",
          "except"}

\* C13: a row whose URL cell is empty or missing is never one that is
\* processed (so nothing is fetched for it), and the step that takes it moves
\* on to the next row and changes nothing else: no file, no record, no
\* snippet, no error
BlankRowDoesNothing ==
    /\ [](pc \in InRow => row.url \notin BlankCells)
    /\ [][(row' # row /\ row'.url \in BlankCells /\ row' # NoRow) =>
            /\ pc = "loop" /\ pc' = "loop"
            /\ rowIdx' = rowIdx + 1
            /\ UNCHANGED <<diskVars, metaBuf, docs, countVars, pdf_bytes, exc,
                           runVars>>]_vars

\* an empty cell was skipped as the second row, after a row that was recorded
C13Witness ==
    /\ pc = "loop" /\ row.url = EmptyCell /\ row # NoRow
    /\ rowIdx = 3 /\ Len(docs) >= 1

\* --------------------------------------------------------- truncate, alone
\* --max-chars is any integer argparse accepts
MaxCharsArgs == -1..MaxChars

InitTrunc ==
    /\ platform = "nt"
    /\ MainIdle
    /\ FetchIdle
    /\ NormIdle
    /\ ExtractIdle
    /\ tIn \in Texts(MaxLen)
    /\ tN \in MaxCharsArgs
    /\ tOut = <<>>
    /\ tpc = "input"

\* "snippet": truncate(content.replace("\n", " "), args.max_chars)
TruncateCall ==
    /\ tpc = "input"
    /\ tOut' = truncate(Flatten(tIn), tN)
    /\ tpc' = "done"
    /\ UNCHANGED <<tIn, tN>>
    /\ UNCHANGED <<normVars, extractVars, fetchVars, diskVars, rowVars,
                   runVars, countVars, pc, metaBuf, docs, rowIdx>>

NextTrunc == TruncateCall

SpecTrunc == InitTrunc /\ [][NextTrunc]_vars

\* C12: for a max-chars value n >= 0 the snippet of a flattened text s is s
\* when len(s) <= n, and otherwise the first n characters of s followed by
\* the marker, a space and an ellipsis
SnippetTruncation ==
    (tpc = "done" /\ tN >= 0) =>
        LET s == [i \in 1..Len(tIn) |-> IF tIn[i] = "\n" THEN " " ELSE tIn[i]]
        IN  IF Len(s) <= tN
            THEN tOut = s
            ELSE /\ Len(tOut) = tN + 2
                 /\ \A i \in 1..tN : tOut[i] = s[i]
                 /\ tOut[tN + 1] = " "
                 /\ tOut[tN + 2] = "ELLIPSIS"

\* a text longer than max-chars was cut
C12Witness == tpc = "done" /\ tN = MaxChars /\ Len(tIn) > tN /\ "\n" \in Range(tIn)

\* ----------------------------------- extract_text_from_pdf_bytes, alone
PageTexts == {<<>>, <<"a">>, <<"b", "\n">>}

\* the documents handed to the extractor: readable ones of up to MaxPages
\* pages, and bytes that are no PDF
ExtractDocs ==
    {[id |-> "doc", readable |-> TRUE, pages |-> ps] :
        ps \in UNION {[1..k -> PageTexts] : k \in 0..MaxPages}}
        \cup {PdfBad}

InitExtract ==
    /\ platform = "nt"
    /\ MainIdle
    /\ FetchIdle
    /\ NormIdle
    /\ TruncIdle
    /\ eIn \in ExtractDocs
    /\ eMax \in 0..(MaxPages + 1)
    /\ eOut = <<>>
    /\ epc = "input"

\* fitz.open succeeds: the pages are read and joined
ExtractReturn ==
    /\ epc = "input"
    /\ eIn.readable
    /\ eOut' = extract_text_from_pdf_bytes(eIn, eMax)
    /\ epc' = "returned"
    /\ UNCHANGED <<eIn, eMax>>
    /\ UNCHANGED <<normVars, truncVars, fetchVars, diskVars, rowVars,
                   runVars, countVars, pc, metaBuf, docs, rowIdx>>

\* fitz.open raises on bytes that are no PDF
ExtractRaise ==
    /\ epc = "input"
    /\ ~eIn.readable
    /\ epc' = "raised"
    /\ UNCHANGED <<eIn, eMax, eOut>>
    /\ UNCHANGED <<normVars, truncVars, fetchVars, diskVars, rowVars,
                   runVars, countVars, pc, metaBuf, docs, rowIdx>>

NextExtract == ExtractReturn \/ ExtractRaise

SpecExtract == InitExtract /\ [][NextExtract]_vars

RECURSIVE PageOffset(_, _)
\* where page i starts in the joined text: after the pages before it and
\* one separator for each
PageOffset(ps, i) ==
    IF i <= 1 THEN 0 ELSE PageOffset(ps, i - 1) + Len(ps[i - 1]) + 1

\* C18: the text returned for a readable document of P pages is that of
\* its first k pages in page order, k = P when max_pages is 0 and
\* min(max_pages, P) otherwise, with one newline between consecutive pages
\* and nothing else; bytes that are no PDF end in an error, never in a text
ExtractPageLimit ==
    /\ epc = "raised" => ~eIn.readable
    /\ epc = "returned" =>
        LET ps == eIn.pages
            k == IF eMax = 0 THEN Len(ps)
                 ELSE IF eMax <= Len(ps) THEN eMax ELSE Len(ps)
        IN  /\ eIn.readable
            /\ Len(eOut) = IF k = 0 THEN 0 ELSE PageOffset(ps, k) + Len(ps[k])
            /\ \A i \in 1..k : \A t \in 1..Len(ps[i]) :
                   eOut[PageOffset(ps, i) + t] = ps[i][t]
            /\ \A i \in 1..(k - 1) :
                   eOut[PageOffset(ps, i) + Len(ps[i]) + 1] = "\n"

\* a page limit below the page count took effect on a document of three pages
C18Witness ==
    /\ epc = "returned" /\ Len(eIn.pages) = 3 /\ eMax = 2
    /\ eOut = eIn.pages[1] \o <<"\n">> \o eIn.pages[2]
    /\ eIn.pages[1] # <<>>

\* ------------------------------------------------ the order of the steps
\* the steps main can take from each position of a row (a kill apart)
StepsFrom ==
    [p \in InRow \cup {"loop"} |->
        CASE p = "loop" -> {"loop", "hashed", "except", "closed"}
          [] p = "hashed" -> {"writing", "written", "except"}
          [] p = "writing" -> {"written"}
          [] p = "written" -> {"buffered", "except"}
          [] p = "buffered" -> {"flushed"}
          [] p = "flushed" -> {"staged"}
          [] p = "staged" -> {"loop"}
          [] p = "except" -> {"loop"}]

\* C14: a processed row goes through fetch and hash, the optional extract,
\* normalize and write, the append and the flush of its record, the staging
\* of its snippet and the delay, in this order; a snippet is staged only from
\* the state where the row's record is flushed, so between rows as many
\* snippets as records were added in the run; a failed row goes to the error
\* handler and from there to the next row with no record, snippet, file
\* write or delay
RowStepOrder ==
    /\ [](pc = "loop" => snippetsOwed = 0)
    /\ [][/\ (pc \in InRow \cup {"loop"} /\ pc' # "crashed") =>
               pc' \in StepsFrom[pc]
          /\ (pc \in Running /\ Len(docs') > Len(docs)) =>
               /\ pc = "flushed"
               /\ Len(docs') = Len(docs) + 1
               /\ Records(metaDisk) # <<>>
               /\ Records(metaDisk)[Len(Records(metaDisk))].pdf_url = row.url
               /\ docs'[Len(docs')].pdf_url = row.url
          /\ pc = "except" =>
               /\ Len(Records(Log')) <= Len(Records(Log))
               /\ Len(docs') <= Len(docs)
               /\ fs' = fs]_vars

\* a row went through every step, the optional ones included
C14Witness ==
    /\ pc = "staged" /\ extracted /\ Len(docs) = 2
    /\ docs[2].pdf_url = row.url

\* C15: while rows are processed docs_index.json is not touched and the
\* list in memory begins with what the file holds; the list grows only by
\* the entry of the row whose record was just flushed, at its end; the file
\* changes only in the write that follows the close of the log after the
\* last row, and what that write leaves is the list in memory
SnippetIndexWrittenOnce ==
    /\ [](pc \in InRow \cup {"loop", "closed"} =>
            /\ Len(jsonFile.items) <= Len(docs)
            /\ SubSeq(docs, 1, Len(jsonFile.items)) = jsonFile.items)
    /\ [][/\ jsonFile' # jsonFile =>
               \/ pc = "closed" /\ pc' = "jsonopen"
               \/ /\ pc = "jsonopen" /\ pc' = "finished"
                  /\ jsonFile' = [state |-> "list", items |-> docs]
          /\ pc' = "finished" => pc = "jsonopen"
          /\ pc' = "jsonopen" => pc = "closed" /\ metaBuf = <<>>
          /\ pc' = "closed" => pc = "loop" /\ rowIdx > total
          /\ (pc \in Running /\ pc' # "crashed" /\ docs' # docs) =>
               /\ pc = "flushed"
               /\ docs' = Append(docs,
                      [id |-> Md5(row.url), date |-> format_date(row.date),
                       pdf_url |-> row.url, text_relpath |-> txt_path(row),
                       snippet |-> truncate(Flatten(fs[txt_path(row)].text),
                                            DefaultMaxChars)])]_vars

\* a run wrote the entry of an earlier run followed by its own
C15Witness ==
    /\ pc = "finished" /\ Len(jsonFile.items) = 2
    /\ startUrls = {UrlA} /\ LoggedUrls(metaDisk) = {UrlA, UrlB}
    /\ jsonFile.items[1].pdf_url = UrlA /\ jsonFile.items[2].pdf_url = UrlB

\* C16: the k-th delay of a call is sleep * k, a delay follows a failed
\* attempt only, and a call that raises has slept after every failed attempt
\* but the last
LinearBackoff ==
    /\ \A k \in 1..Len(frame.slept) : frame.slept[k] = frame.sleep * k
    /\ Len(frame.slept) <=
           Cardinality({k \in 1..Len(frame.seen) : ~frame.seen[k].ok})
    /\ (frame.pc = "raised" /\ frame.retries >= 1) =>
           Len(frame.slept) = frame.retries - 1

\* C17: the rows considered are the first total of the manifest, total
\* being all N for --limit 0 and min(L, N) for a limit L > 0; the loop takes
\* them one at a time from the first, every row taken, skipped and failed
\* ones too, moving the position on by one; it ends after row total; and a
\* record is added at the end of the log, so records are in row order
ManifestOrderAndLimit ==
    /\ [](pc \in Running =>
            /\ total = IF limit = 0 THEN nrows
                       ELSE IF limit <= nrows THEN limit ELSE nrows
            /\ rowIdx >= 1 /\ rowIdx <= total + 1)
    /\ [](pc \in InRow => rowIdx <= total)
    /\ [][/\ (pc \in Running /\ pc' \in Running) =>
               /\ total' = total /\ limit' = limit /\ nrows' = nrows
               /\ rowIdx' \in {rowIdx, rowIdx + 1}
               /\ (rowIdx' = rowIdx + 1) <=>
                      (pc \in {"loop", "staged", "except"} /\ pc' = "loop")
               /\ (pc' \in {"hashed", "except"} /\ pc = "loop") =>
                      (row' # NoRow /\ rowIdx <= total)
          /\ pc' = "closed" => rowIdx = total + 1
          /\ Len(Records(Log')) > Len(Records(Log)) =>
               SubSeq(Records(Log'), 1, Len(Records(Log))) = Records(Log)]_vars

\* --limit 1 cut a manifest of two rows after its first row, which was recorded
C17Witness ==
    /\ pc = "closed" /\ limit = 1 /\ nrows = 2 /\ rowIdx = 2
    /\ LoggedUrls(metaDisk) \ startUrls # {}

\* C19: when a run has written the snippet index, every URL with a record in
\* the log has an entry in the index
LogAndIndexInStep ==
    pc = "finished" =>
        \A u \in LoggedUrls(metaDisk) :
            \E i \in 1..Len(jsonFile.items) : jsonFile.items[i].pdf_url = u

\* C20: when a record has been put in the buffer, the text file it names is
\* the normalized extraction of the bytes whose digest it holds, and its
\* chars field is the byte length of that file
RecordMatchesDigest ==
    pc = "buffered" =>
        LET rec == metaBuf[Len(metaBuf)]
        IN  /\ rec.sha256_bytes = Sha256(pdf_bytes)
            /\ rec.chars = ByteLen(fs[rec.text_relpath].text)
            /\ pdf_bytes.readable
            /\ fs[rec.text_relpath].text =
                   normalize_text(extract_text_from_pdf_bytes(pdf_bytes, DefaultMaxPages))
====
